---- MODULE Spec2Model ----
(***************************************************************************)
(* splint: a rule-driven lexical linter.  Model of the matching engine     *)
(* (splint/src/lib.rs, splint/src/ty.rs), of the command-line run          *)
(* (splint/src/main.rs) and of the structured diagnostics                  *)
(* (splint/src/compiler.rs).                                               *)
(*                                                                         *)
(* A source text is a TLA+ string.  A token (Named) is a record            *)
(* [kind, text, span]; a span carries the byte range lo..hi and the        *)
(* start/end positions [line (1-based), column (0-based)].                 *)
(***************************************************************************)
EXTENDS Integers, Sequences, FiniteSets, TLC

VARIABLES
    \* ---- matching engine (match_rule), one invocation per step
    mpc,        \* "scan" while the recursion is running, "done" when it returned
    rule,       \* the rule being matched
    tokens,     \* the token sequence handed to the outermost call
    rest,       \* the token sequence handed to the current (innermost) call
    out,        \* the matches collected so far: sequence of <<rule, window>>
    scans,      \* number of times Rule::test was invoked
    \* ---- a single Needle::test call
    npc, needle, tok, nres,
    \* ---- the library entry point test(rules, tokens, source, file_name)
    tpc, trules, ttokens, tsource, tres,
    \* ---- a run of the command-line program
    pc, quiet, analyze, rulesFile, files, overflowChecks,
    r, nread, violations, queue, stdout, stderr, emitted, exit, cause,
    \* ---- the flattening of one token stream (lint's map(parse).flatten())
    ppc,        \* "call" before the flattening, "done" after it
    pinput,     \* the source text
    pstream,    \* its token stream
    pnamed      \* the flattened tokens

mvars == <<mpc, rule, tokens, rest, out, scans>>
nvars == <<npc, needle, tok, nres>>
tvars == <<tpc, trules, ttokens, tsource, tres>>
rvars == <<pc, quiet, analyze, rulesFile, files, overflowChecks,
           r, nread, violations, queue, stdout, stderr, emitted, exit, cause>>
pvars == <<ppc, pinput, pstream, pnamed>>
vars == <<mvars, nvars, tvars, rvars, pvars>>

(***************************************************************************)
(* Bounds of the model                                                     *)
(***************************************************************************)
MaxSrcLen == 5      \* longest enumerated source text, in characters
MaxPatLen == 2      \* longest enumerated pattern, in needles
MaxFiles == 2       \* most files given on one command line
MaxTestLen == 3     \* longest text handed to the library's test, in characters
MaxParseLen == 5    \* longest text whose token stream is flattened, in characters

(***************************************************************************)
(* Option<String>                                                          *)
(***************************************************************************)
None == [some |-> FALSE, val |-> ""]
Some(v) == [some |-> TRUE, val |-> v]

(***************************************************************************)
(* Strings, character by character                                         *)
(***************************************************************************)
Ch(s, i) == SubSeq(s, i, i)

Min(a, b) == IF a < b THEN a ELSE b

\* F(v), with v evaluated once (a let-binding by value)
Eval(F(_), v) == CHOOSE y \in {F(x) : x \in {v}} : TRUE

Letters ==
    {"a", "b", "c", "d", "e", "f", "g", "h", "i", "j", "k", "l", "m", "n",
     "o", "p", "q", "r", "s", "t", "u", "v", "w", "x", "y", "z", "_"}

Digits == {"0", "1", "2", "3", "4", "5", "6", "7", "8", "9"}

PunctChars == {".", ";", ",", "!", "=", "#", "/", "^", "$"}

OpenChars == {"(", "{", "["}

CloseChars == {")", "}", "]"}

(***************************************************************************)
(* The tokenizer, proc_macro2::TokenStream::from_str, as lint calls it.    *)
(* Lines are counted from 1 and broken by "\n"; columns are counted from 0 *)
(* in characters; lo/hi are byte offsets (texts here are single-byte).     *)
(***************************************************************************)
Pos(line, column) == [line |-> line, column |-> column]

Span(lo, hi, line, column) ==
    [lo |-> lo, hi |-> hi,
     start |-> Pos(line, column), end |-> Pos(line, column + (hi - lo))]

RECURSIVE WordEnd(_, _)
WordEnd(s, i) ==
    IF i < Len(s) /\ Ch(s, i + 1) \in (Letters \cup Digits)
    THEN WordEnd(s, i + 1)
    ELSE i

\* The lexemes of s from character i on, at position (line, column).
RECURSIVE Lex(_, _, _, _)
Lex(s, i, line, column) ==
    IF i > Len(s) THEN [ok |-> TRUE, lx |-> <<>>]
    ELSE LET c == Ch(s, i) IN
         IF c = "\n" THEN Lex(s, i + 1, line + 1, 0)
         ELSE IF c = " " THEN Lex(s, i + 1, line, column + 1)
         ELSE IF c \in (Letters \cup Digits) THEN
            LET j == WordEnd(s, i)
                t == [kind |-> IF c \in Digits THEN "Literal" ELSE "Ident",
                      text |-> SubSeq(s, i, j),
                      span |-> Span(i - 1, j, line, column)]
            IN  Eval(LAMBDA more : [ok |-> more.ok, lx |-> <<t>> \o more.lx],
                     Lex(s, j + 1, line, column + (j - i + 1)))
         ELSE IF c \in (PunctChars \cup OpenChars \cup CloseChars) THEN
            LET t == [kind |-> IF c \in PunctChars THEN "Punct"
                               ELSE IF c \in OpenChars THEN "Open" ELSE "Close",
                      text |-> c,
                      span |-> Span(i - 1, i, line, column)]
            IN  Eval(LAMBDA more : [ok |-> more.ok, lx |-> <<t>> \o more.lx],
                     Lex(s, i + 1, line, column + 1))
         ELSE [ok |-> FALSE, lx |-> <<>>]

Delimiter(c) ==
    IF c \in {"(", ")"} THEN "Parenthesis"
    ELSE IF c \in {"{", "}"} THEN "Brace"
    ELSE "Bracket"

NoSpan == Span(0, 0, 0, 0)

\* TokenTree::Ident / Punct / Literal
Leaf(t) ==
    [tt |-> t.kind, text |-> t.text, span |-> t.span, delimiter |-> "",
     span_open |-> NoSpan, span_close |-> NoSpan, stream |-> <<>>]

\* TokenTree::Group
Group(d, open, close, stream) ==
    [tt |-> "Group", text |-> "", span |-> NoSpan, delimiter |-> d,
     span_open |-> open, span_close |-> close, stream |-> stream]

\* The token trees that start at lexeme i, up to the end of the enclosing
\* group (or of the text); next is the lexeme at which the reading stopped.
RECURSIVE Trees(_, _)
Trees(lx, i) ==
    IF i > Len(lx) \/ lx[i].kind = "Close"
    THEN [ok |-> TRUE, stream |-> <<>>, next |-> i]
    ELSE IF lx[i].kind = "Open" THEN
        Eval(LAMBDA inner :
            IF \/ ~inner.ok
               \/ inner.next > Len(lx)
               \/ Delimiter(lx[inner.next].text) # Delimiter(lx[i].text)
            THEN [ok |-> FALSE, stream |-> <<>>, next |-> i]
            ELSE LET g == Group(Delimiter(lx[i].text), lx[i].span,
                                lx[inner.next].span, inner.stream)
                 IN  Eval(LAMBDA more :
                        [ok |-> more.ok, stream |-> <<g>> \o more.stream,
                         next |-> more.next],
                        Trees(lx, inner.next + 1)),
            Trees(lx, i + 1))
    ELSE Eval(LAMBDA more :
            [ok |-> more.ok, stream |-> <<Leaf(lx[i])>> \o more.stream,
             next |-> more.next],
            Trees(lx, i + 1))

\* TokenStream::from_str(input): Ok(stream) or Err(LexError)
TokenStream_from_str(input) ==
    Eval(LAMBDA l :
        IF ~l.ok THEN [ok |-> FALSE, stream |-> <<>>]
        ELSE Eval(LAMBDA t :
                IF t.ok /\ t.next > Len(l.lx)
                THEN [ok |-> TRUE, stream |-> t.stream]
                ELSE [ok |-> FALSE, stream |-> <<>>],
                Trees(l.lx, 1)),
        Lex(input, 1, 1, 0))

(***************************************************************************)
(* Named tokens and the flattener                                          *)
(***************************************************************************)
Named(kind, text, span) == [kind |-> kind, text |-> text, span |-> span]

match_delim(d) ==
    IF d = "Parenthesis" THEN <<"(", ")">>
    ELSE IF d = "Brace" THEN <<"{", "}">>
    ELSE IF d = "Bracket" THEN <<"[", "]">>
    ELSE <<" ", " ">>

delim_pair_OpenClose(d, s1, s2) ==
    <<Named("OpenDelim", match_delim(d)[1], s1),
      Named("CloseDelim", match_delim(d)[2], s2)>>

delim_pair(d, s1, s2) ==
    <<Named("Delim", match_delim(d)[1], s1),
      Named("Delim", match_delim(d)[2], s2)>>

\* impl Into<Named> for TokenTree (Ident, Punct, Literal)
into_Named(tt) == Named(tt.tt, tt.text, tt.span)

parse_shallow(tt) ==
    IF tt.tt = "Group"
    THEN delim_pair(tt.delimiter, tt.span_open, tt.span_close)
    ELSE <<into_Named(tt)>>

RECURSIVE parse(_)
RECURSIVE parse_all(_)
\* the flattened tokens of every tree of a stream, in order
parse_all(stream) ==
    IF stream = <<>> THEN <<>>
    ELSE parse(Head(stream)) \o parse_all(Tail(stream))

parse(tt) ==
    IF tt.tt = "Group"
    THEN LET delim == delim_pair(tt.delimiter, tt.span_open, tt.span_close)
         IN  <<delim[1]>> \o parse_all(tt.stream) \o <<delim[2]>>
    ELSE <<into_Named(tt)>>

\* lint, up to the call of test: the flattened tokens of a source text
\* (defined when the text tokenizes)
Tokenize(input) == Eval(LAMBDA ts : parse_all(ts.stream), TokenStream_from_str(input))

(***************************************************************************)
(* Regular expressions, as regex::Regex::new and Regex::is_match treat the *)
(* syntax used by the rules here: literal characters, the anchors ^ and $, *)
(* the wildcard . and groups ( ).  A pattern whose parentheses do not      *)
(* balance does not compile.  is_match searches anywhere in the text.      *)
(***************************************************************************)
RECURSIVE Balanced(_, _, _)
Balanced(re, i, depth) ==
    IF i > Len(re) THEN depth = 0
    ELSE IF Ch(re, i) = "(" THEN Balanced(re, i + 1, depth + 1)
    ELSE IF Ch(re, i) = ")" THEN depth > 0 /\ Balanced(re, i + 1, depth - 1)
    ELSE Balanced(re, i + 1, depth)

Regex_new_ok(re) == Balanced(re, 1, 0)

\* Does re, from its character i on, match text after p characters of it?
RECURSIVE MatchHere(_, _, _, _)
MatchHere(re, i, text, p) ==
    IF i > Len(re) THEN TRUE
    ELSE LET c == Ch(re, i) IN
         IF c \in {"(", ")"} THEN MatchHere(re, i + 1, text, p)
         ELSE IF c = "^" THEN p = 0 /\ MatchHere(re, i + 1, text, p)
         ELSE IF c = "$" THEN p = Len(text) /\ MatchHere(re, i + 1, text, p)
         ELSE IF c = "." THEN /\ p < Len(text)
                              /\ Ch(text, p + 1) # "\n"
                              /\ MatchHere(re, i + 1, text, p + 1)
         ELSE /\ p < Len(text)
              /\ Ch(text, p + 1) = c
              /\ MatchHere(re, i + 1, text, p + 1)

Regex_is_match(re, text) == \E p \in 0..Len(text) : MatchHere(re, 1, text, p)

(***************************************************************************)
(* Needle and Rule                                                         *)
(***************************************************************************)
Needle(kind, value) == [kind |-> kind, value |-> value]

starts_with(v, c) == Len(v) >= 1 /\ Ch(v, 1) = c

ends_with(v, c) == Len(v) >= 1 /\ Ch(v, Len(v)) = c

Needle_test_any_kind(n, s) ==
    IF n.value.some THEN (IF s.text = n.value.val THEN "true" ELSE "false")
    ELSE "true"

\* Needle::test: "true", "false", or "panic" when Regex::new(v).unwrap() fails
Needle_test(n, s) ==
    IF s.kind # n.kind THEN "false"
    ELSE IF n.value.some THEN
        LET v == n.value.val IN
        IF starts_with(v, "/") /\ ends_with(v, "/")
        THEN IF ~Regex_new_ok(v) THEN "panic"
             ELSE IF Regex_is_match(v, s.text) THEN "true" ELSE "false"
        ELSE IF s.text = v THEN "true" ELSE "false"
    ELSE "true"

Rule(name, description, help, range, pattern, link, fails) ==
    [name |-> name, description |-> description, help |-> help,
     range |-> range, pattern |-> pattern, link |-> link, fails |-> fails]

\* window.zip(pattern).all(|(a, b)| b.test(a)), from element k on
RECURSIVE all_test(_, _, _)
all_test(window, pattern, k) ==
    IF k > Len(pattern) THEN "true"
    ELSE LET x == Needle_test(pattern[k], window[k]) IN
         IF x = "true" THEN all_test(window, pattern, k + 1) ELSE x

\* s.iter().skip(m).take(n) has n elements (m counted from 1 here)
take_is_full(s, m, n) == Len(SubSeq(s, m, Min(m + n - 1, Len(s)))) = n

\* Rule::test, the candidates from index m on
RECURSIVE Rule_test_from(_, _, _)
Rule_test_from(rl, s, m) ==
    IF m > Len(s) THEN [tag |-> "Ok", window |-> <<>>]
    ELSE IF Len(rl.pattern) = 0 THEN [tag |-> "Panic", window |-> <<>>]
    ELSE IF rl.pattern[1].kind # s[m].kind THEN Rule_test_from(rl, s, m + 1)
    ELSE IF ~take_is_full(s, m, Len(rl.pattern))
         THEN Rule_test_from(rl, s, m + 1)
    ELSE LET window == SubSeq(s, m, m + Len(rl.pattern) - 1)
             a == all_test(window, rl.pattern, 1)
         IN  IF a = "true" THEN [tag |-> "Err", window |-> window]
             ELSE IF a = "panic" THEN [tag |-> "Panic", window |-> <<>>]
             ELSE Rule_test_from(rl, s, m + 1)

\* Rule::test: Ok(()), Err(window) for the first match, or a panic
Rule_test(rl, s) == Rule_test_from(rl, s, 1)

(***************************************************************************)
(* The matching engine                                                     *)
(***************************************************************************)
Last(s) == s[Len(s)]

PosLess(a, b) == a.line < b.line \/ (a.line = b.line /\ a.column < b.column)

PosLeq(a, b) == a = b \/ PosLess(a, b)

starts_before_or_at(v, line, col) ==
    LET span_line == v.span.start.line IN
    IF span_line < line THEN TRUE
    ELSE IF span_line = line THEN v.span.start.column <= col
    ELSE FALSE

\* the skip_while predicate of match_rule
starts_before(v, line, col) ==
    LET span_line == v.span.start.line IN
    IF span_line < line THEN TRUE
    ELSE IF span_line = line THEN v.span.start.column < col
    ELSE FALSE

skip_nothing(s, line, col) == s

RECURSIVE skip_while(_, _, _)
skip_while(s, line, col) ==
    IF s = <<>> THEN <<>>
    ELSE IF starts_before(Head(s), line, col) THEN skip_while(Tail(s), line, col)
    ELSE s

resume_after_first(e) == e[1].span.end

\* the (line, column) at which match_rule resumes after the window e
resume(e) == Last(e).span.end

never_too_short(rl, toks) == FALSE

\* match_rule's early return
too_short(rl, toks) == Len(toks) < Len(rl.pattern)

\* One invocation of match_rule, up to its recursive call: whether Rule::test
\* was called, its result, and the tokens handed to the recursive call.
match_rule_step(rl, toks) ==
    IF too_short(rl, toks)
    THEN [scanned |-> FALSE, tag |-> "Ok", window |-> <<>>, more |-> <<>>]
    ELSE Eval(LAMBDA t :
            IF t.tag = "Err"
            THEN [scanned |-> TRUE, tag |-> "Err", window |-> t.window,
                  more |-> skip_while(toks, resume(t.window).line,
                                      resume(t.window).column)]
            ELSE [scanned |-> TRUE, tag |-> t.tag, window |-> <<>>,
                  more |-> <<>>],
            Rule_test(rl, toks))

\* match_rule: the matches <<rule, window>>, and whether a panic ended it
RECURSIVE match_rule(_, _)
match_rule(rl, toks) ==
    Eval(LAMBDA s :
        IF s.tag = "Err"
        THEN Eval(LAMBDA m :
                [panic |-> m.panic, out |-> <<<<rl, s.window>>>> \o m.out],
                match_rule(rl, s.more))
        ELSE [panic |-> s.tag = "Panic", out |-> <<>>],
        match_rule_step(rl, toks))

(***************************************************************************)
(* Inputs of the matching engine                                           *)
(***************************************************************************)
\* every text of at most n characters of A
RECURSIVE Texts(_, _)
Texts(A, n) ==
    IF n = 0 THEN {""}
    ELSE LET T == Texts(A, n - 1) IN T \cup {t \o c : t \in T, c \in A}

RECURSIVE Patterns(_, _)
Patterns(N, n) ==
    IF n = 0 THEN {<<>>}
    ELSE LET P == Patterns(N, n - 1) IN P \cup {Append(q, x) : q \in P, x \in N}

MatchAlphabet == {"a", ".", " ", "\n"}

ExampleSources == {"x.unwrap()", "a.unwrap(); b.unwrap();", "f(a.b)\n.a"}

MatchSources ==
    {s \in Texts(MatchAlphabet, MaxSrcLen) \cup ExampleSources :
        TokenStream_from_str(s).ok}

MatchNeedles ==
    {Needle("Ident", None), Needle("Ident", Some("a")), Needle("Punct", Some("."))}

UnwrapPattern ==
    <<Needle("Ident", None), Needle("Punct", Some(".")),
      Needle("Ident", Some("unwrap")), Needle("Delim", Some("(")),
      Needle("Delim", Some(")"))>>

MatchPatterns ==
    (Patterns(MatchNeedles, MaxPatLen) \ {<<>>})
        \cup {UnwrapPattern, <<Needle("Delim", None)>>}

RuleOf(pattern) ==
    Rule("rule", "description", None, <<0, 0>>, pattern, None, FALSE)

(***************************************************************************)
(* Specification SpecMatch: match_rule(rule, tokens), one invocation of    *)
(* the recursion per step.                                                 *)
(***************************************************************************)
NIdle == npc = "idle" /\ needle = Needle("", None) /\ tok = Named("", "", NoSpan)
            /\ nres = ""

TIdle == tpc = "idle" /\ trules = <<>> /\ ttokens = <<>> /\ tsource = ""
            /\ tres = <<>>

RIdle == /\ pc = "idle" /\ quiet = FALSE /\ analyze = FALSE /\ rulesFile = ""
         /\ files = <<>> /\ overflowChecks = FALSE /\ r = <<>> /\ nread = 0
         /\ violations = <<>> /\ queue = <<>> /\ stdout = <<>> /\ stderr = <<>>
         /\ emitted = <<>> /\ exit = -1 /\ cause = ""

MIdle == /\ mpc = "idle" /\ rule = RuleOf(<<>>) /\ tokens = <<>> /\ rest = <<>>
         /\ out = <<>> /\ scans = 0

PIdle == ppc = "idle" /\ pinput = "" /\ pstream = <<>> /\ pnamed = <<>>

MatchInit ==
    /\ mpc = "scan"
    /\ rule \in {RuleOf(p) : p \in MatchPatterns}
    /\ tokens \in {Tokenize(s) : s \in MatchSources}
    /\ rest = tokens
    /\ out = <<>>
    /\ scans = 0
    /\ NIdle /\ TIdle /\ RIdle /\ PIdle

\* an invocation that finds a match: it records it and makes the recursive call
MatchFound ==
    /\ mpc = "scan"
    /\ \E s \in {match_rule_step(rule, rest)} :
        /\ s.tag = "Err"
        /\ out' = Append(out, <<rule, s.window>>)
        /\ rest' = s.more
        /\ scans' = scans + 1
    /\ UNCHANGED <<mpc, rule, tokens, nvars, tvars, rvars,
                   pvars>>

\* an invocation that finds none: the recursion returns
MatchReturn ==
    /\ mpc = "scan"
    /\ \E s \in {match_rule_step(rule, rest)} :
        /\ s.tag # "Err"
        /\ mpc' = IF s.tag = "Panic" THEN "panic" ELSE "done"
        /\ scans' = IF s.scanned THEN scans + 1 ELSE scans
    /\ UNCHANGED <<rule, tokens, rest, out, nvars, tvars, rvars,
                   pvars>>

MatchNext == MatchFound \/ MatchReturn

SpecMatch == MatchInit /\ [][MatchNext]_vars

(***************************************************************************)
(* Claims about the matching engine (checked under SpecMatch)              *)
(***************************************************************************)
Windows(o) == [i \in 1..Len(o) |-> o[i][2]]

\* w1 lies wholly before w2 and shares no token with it
Disjoint(w1, w2) ==
    /\ \A a \in 1..Len(w1), b \in 1..Len(w2) : w1[a] # w2[b]
    /\ Last(w1).span.hi <= w2[1].span.lo
    /\ PosLeq(Last(w1).span.end, w2[1].span.start)

\* C1: the windows match_rule returns are pairwise disjoint in source
\* position (no token belongs to two windows) and come in strictly
\* increasing (line, column) order of their first token.
C1_WindowsDisjointIncreasing ==
    \A i \in 1..Len(out), j \in 1..Len(out) :
        i < j =>
            /\ Disjoint(out[i][2], out[j][2])
            /\ PosLess(out[i][2][1].span.start, out[j][2][1].span.start)

\* two windows of two tokens each were found on one line
C1_Witness ==
    /\ mpc = "done"
    /\ Len(out) >= 2
    /\ Len(rule.pattern) = 2
    /\ out[1][2][1].span.start.line = out[2][2][1].span.start.line

\* The reference greedy scan: the pattern matches at index i of toks
MatchesAt(pattern, toks, i) ==
    /\ i + Len(pattern) - 1 <= Len(toks)
    /\ \A k \in 1..Len(pattern) :
           Needle_test(pattern[k], toks[i + k - 1]) = "true"

FirstMatch(pattern, toks) ==
    IF \E i \in 1..Len(toks) : MatchesAt(pattern, toks, i)
    THEN CHOOSE i \in 1..Len(toks) :
            /\ MatchesAt(pattern, toks, i)
            /\ \A j \in 1..(i - 1) : ~MatchesAt(pattern, toks, j)
    ELSE 0

RECURSIVE GreedyScan(_, _)
GreedyScan(pattern, toks) ==
    Eval(LAMBDA i :
        IF i = 0 THEN <<>>
        ELSE LET w == SubSeq(toks, i, i + Len(pattern) - 1)
                 AtOrAfter(v) == PosLeq(Last(w).span.end, v.span.start)
             IN  Eval(LAMBDA remainder : <<w>> \o GreedyScan(pattern, remainder),
                      SelectSeq(toks, AtOrAfter)),
        FirstMatch(pattern, toks))

\* C2: match_rule(rule, tokens) equals the reference greedy scan: each window
\* is the slice at the smallest index where the whole pattern matches, and
\* the search resumes with the tokens that start at or after the end of the
\* window's last token, so no occurrence in the remainder is omitted.
C2_EqualsGreedyScan ==
    mpc = "done" =>
        /\ Windows(out) = GreedyScan(rule.pattern, tokens)
        /\ \A i \in 1..Len(out) : out[i][1] = rule
        /\ FirstMatch(rule.pattern, rest) = 0

\* `a.unwrap(); b.unwrap();` gave exactly the two occurrences, left to right
C2_Witness ==
    /\ mpc = "done"
    /\ tokens = Tokenize("a.unwrap(); b.unwrap();")
    /\ rule.pattern = UnwrapPattern
    /\ Windows(out) = <<SubSeq(tokens, 1, 5), SubSeq(tokens, 7, 11)>>

\* C10: with fewer tokens than needles match_rule returns the empty list
\* at once: Rule::test is never invoked and no recursive call is made.
C10_ShortInputNoScan ==
    Len(tokens) < Len(rule.pattern) =>
        /\ out = <<>>
        /\ scans = 0
        /\ rest = tokens
        /\ mpc \in {"scan", "done"}
        /\ (mpc = "scan" => ENABLED MatchReturn /\ ~ENABLED MatchFound)

\* a non-empty input, shorter than the pattern, whose first token has the
\* kind of the first needle: the call has returned
C10_Witness ==
    /\ mpc = "done"
    /\ tokens # <<>>
    /\ Len(tokens) < Len(rule.pattern)
    /\ tokens[1].kind = rule.pattern[1].kind
    /\ out = <<>>

\* match_rule runs to its return: each invocation is a step the program takes
SpecMatchFair == SpecMatch /\ WF_vars(MatchNext)

IsSuffix(a, b) == Len(a) <= Len(b) /\ a = SubSeq(b, Len(b) - Len(a) + 1, Len(b))

\* an invocation found a window: the tokens handed to the recursive call are
\* a suffix of the current ones, shorter by at least the pattern's length,
\* and hold no token of the window
RemainderShrinks ==
    out' # out =>
        /\ IsSuffix(rest', rest)
        /\ Len(rest') + Len(rule.pattern) <= Len(rest)
        /\ \A k \in 1..Len(Last(out')[2]), j \in 1..Len(rest') :
               rest'[j] # Last(out')[2][k]

\* C12: for a non-empty pattern and tokens in document order, each of
\* non-empty extent, match_rule terminates: after each match the remainder
\* handed to the recursive call is strictly shorter than the current
\* sequence (it excludes at least the whole window), the recursion stops
\* when no match is found, and the number of matches is at most
\* len(tokens) div len(pattern).
C12_Terminates ==
    /\ [][RemainderShrinks]_vars
    /\ [](Len(out) <= Len(tokens) \div Len(rule.pattern))
    /\ [](mpc = "done" => ~ENABLED MatchNext)
    /\ <>(mpc # "scan")

\* the bound is met: two windows of two tokens each from four or five tokens
C12_Witness ==
    /\ mpc = "done"
    /\ Len(rule.pattern) = 2
    /\ Len(out) = 2
    /\ Len(out) = Len(tokens) \div Len(rule.pattern)
    /\ rest # tokens

(***************************************************************************)
(* Specification SpecNeedle: one call of Needle::test                      *)
(***************************************************************************)
NeedleKinds == {"Ident", "Punct", "Literal", "Delim"}

\* kinds a rule file may name in a needle: those of the tokens, and strings
\* that differ from them in case or by a prefix only
RuleKinds == NeedleKinds \cup {"ident", "Iden", "OpenDelim"}

NeedleValues ==
    {None, Some("a"), Some("unwrap"), Some("test_foo"), Some("."), Some("("),
     Some("/^test_/"), Some("/test_/"), Some("/_test$/"), Some("/./"),
     Some("/"), Some("//"), Some("/(/"), Some("/a")}

TokenTexts ==
    {"test_foo", "foo_test", "a", "unwrap", ".", "(", "/", "1"}

NeedleInit ==
    /\ npc = "call"
    /\ needle \in {Needle(k, v) : k \in RuleKinds, v \in NeedleValues}
    /\ tok \in {Named(k, t, Span(0, Len(t), 1, 0)) :
                    k \in NeedleKinds, t \in TokenTexts}
    /\ nres = ""
    /\ MIdle /\ TIdle /\ RIdle /\ PIdle

NeedleCall ==
    /\ npc = "call"
    /\ nres' = Needle_test(needle, tok)
    /\ npc' = IF nres' = "panic" THEN "panic" ELSE "done"
    /\ UNCHANGED <<needle, tok, mvars, tvars, rvars,
                   pvars>>

NeedleNext == NeedleCall

SpecNeedle == NeedleInit /\ [][NeedleNext]_vars

\* the text between the slashes of a needle value
Inner(v) == SubSeq(v, 2, Len(v) - 1)

Wrapped(v) == Len(v) >= 2 /\ starts_with(v, "/") /\ ends_with(v, "/")

\* C3: a needle whose value is wrapped in slashes is matched by compiling
\* the text between the slashes as a regular expression and testing it
\* against the token text: ("Ident", "/^test_/") matches ("Ident",
\* "test_foo") and does not match ("Ident", "foo_test").
C3_RegexNeedle ==
    (/\ npc = "done"
     /\ needle.value.some
     /\ Wrapped(needle.value.val)
     /\ Regex_new_ok(Inner(needle.value.val))
     /\ needle.kind = tok.kind)
        => /\ nres = "true" <=> Regex_is_match(Inner(needle.value.val), tok.text)
           /\ (needle.value.val = "/^test_/" /\ tok.text = "test_foo")
                 => nres = "true"
           /\ (needle.value.val = "/^test_/" /\ tok.text = "foo_test")
                 => nres = "false"

\* C11: the kind comparison of Needle::test is exact: a needle never matches
\* a token of a different kind, whatever its value (the value is not even
\* looked at, so an invalid regular expression does not panic there); and a
\* needle with no value matches every token of its kind, whatever the
\* token's text.
C11_KindExact ==
    npc # "call" =>
        /\ needle.kind # tok.kind => (npc = "done" /\ nres = "false")
        /\ (needle.kind = tok.kind /\ ~needle.value.some)
              => (npc = "done" /\ nres = "true")
        /\ nres = "true" => needle.kind = tok.kind

\* a needle whose value equals the token's text was tested against a token
\* of another kind, and did not match
C11_Witness ==
    /\ npc = "done"
    /\ needle.kind # tok.kind
    /\ needle.value = Some(tok.text)
    /\ nres = "false"

(***************************************************************************)
(* The diagnostic builder: test(rules, tokens, source, file_name)          *)
(***************************************************************************)
\* str::lines: the pieces between line breaks; a final empty piece is not
\* a line
RECURSIVE LinesFrom(_, _, _)
LinesFrom(s, i, start) ==
    IF i > Len(s)
    THEN IF start > Len(s) THEN <<>> ELSE <<SubSeq(s, start, Len(s))>>
    ELSE IF Ch(s, i) = "\n"
    THEN <<SubSeq(s, start, i - 1)>> \o LinesFrom(s, i + 1, i + 1)
    ELSE LinesFrom(s, i + 1, start)

lines(s) == LinesFrom(s, 1, 1)

\* source.lines().nth(line - 1).unwrap_or_default()
nth_line_or_default(source, line) ==
    IF line <= Len(lines(source)) THEN lines(source)[line] ELSE ""

\* the character counts of the lines of index < n (counted from 0), summed:
\* source.lines().enumerate().filter(|(i, _)| *i < n).map(count).reduce(+)
RECURSIVE chars_before(_, _)
chars_before(ls, n) ==
    IF n <= 0 THEN 0
    ELSE (IF n <= Len(ls) THEN Len(ls[n]) ELSE 0) + chars_before(ls, n - 1)

LintError(rl, window, source, file_name) ==
    [window |-> window,
     fails |-> rl.fails,
     rule |-> rl,
     line |-> <<nth_line_or_default(source, window[1].span.start.line),
                chars_before(lines(source), window[1].span.start.line - 1)>>,
     source |-> [name |-> file_name, text |-> source]]

\* rules.iter().flat_map(|(_, v)| match_rule(v, &tokens)), rules in the
\* map's iteration order
RECURSIVE flat_map_match_rule(_, _, _)
flat_map_match_rule(rules, toks, i) ==
    IF i > Len(rules) THEN [panic |-> FALSE, out |-> <<>>]
    ELSE Eval(LAMBDA m :
            IF m.panic THEN [panic |-> TRUE, out |-> <<>>]
            ELSE Eval(LAMBDA more :
                    [panic |-> more.panic, out |-> m.out \o more.out],
                    flat_map_match_rule(rules, toks, i + 1)),
            match_rule(rules[i], toks))

\* test: the violations, the number of them that fail (main.rs), or a panic
test(rules, toks, source, file_name) ==
    Eval(LAMBDA any :
        [panic |-> any.panic,
         errors |-> [i \in 1..Len(any.out) |->
                        LintError(any.out[i][1], any.out[i][2], source,
                                  file_name)],
         fails |-> Cardinality({i \in 1..Len(any.out) : any.out[i][1].fails})],
        flat_map_match_rule(rules, toks, 1))

(***************************************************************************)
(* Specification SpecTest: one call of the library's test, on tokens and a *)
(* source text the caller supplies                                         *)
(***************************************************************************)
TestAlphabet == {"a", ".", "\n"}

TestSources == Texts(TestAlphabet, MaxTestLen)

TestRules ==
    {<<RuleOf(<<Needle("Ident", None)>>)>>,
     <<RuleOf(<<Needle("Punct", Some("."))>>)>>,
     <<RuleOf(<<Needle("Ident", None), Needle("Punct", None)>>),
       RuleOf(<<Needle("Punct", Some("."))>>)>>}

TestInit ==
    /\ tpc = "call"
    /\ trules \in TestRules
    /\ ttokens \in {Tokenize(s) : s \in TestSources}
    /\ tsource \in TestSources
    /\ tres = <<>>
    /\ MIdle /\ NIdle /\ RIdle /\ PIdle

TestCall ==
    /\ tpc = "call"
    /\ \E t \in {test(trules, ttokens, tsource, "file.rs")} :
        /\ tpc' = IF t.panic THEN "panic" ELSE "done"
        /\ tres' = t.errors
    /\ UNCHANGED <<trules, ttokens, tsource, mvars, nvars, rvars,
                   pvars>>

TestNext == TestCall

SpecTest == TestInit /\ [][TestNext]_vars

\* C9: when the line of the window's first token exceeds the number of lines
\* of the source text, building the violation aborts: no Violation (with a
\* substituted or empty source line) is ever produced for such a window.
C9_OutOfRangeLineAborts ==
    tpc = "done" =>
        \A i \in 1..Len(tres) :
            tres[i].window[1].span.start.line <= Len(lines(tsource))

\* the offset in source at which line n (counted from 1) begins: just past
\* the (n - 1)-th line break
RECURSIVE line_begin(_, _, _)
line_begin(source, n, i) ==
    IF n <= 1 THEN i - 1
    ELSE IF i > Len(source) THEN Len(source)
    ELSE IF Ch(source, i) = "\n" THEN line_begin(source, n - 1, i + 1)
    ELSE line_begin(source, n, i + 1)

\* C13: for a violation whose window starts on line L of the source its
\* tokens came from, the line-start offset stored with the source line is
\* the offset at which line L begins, so byte_start minus that offset is the
\* 0-based column of the window's first token, on every line L.
C13_LineStartOffset ==
    (tpc = "done" /\ ttokens = Tokenize(tsource)) =>
        \A i \in 1..Len(tres) :
            LET first == tres[i].window[1] IN
            /\ tres[i].line[2] = line_begin(tsource, first.span.start.line, 1)
            /\ first.span.lo - tres[i].line[2] = first.span.start.column

(***************************************************************************)
(* Rendering: the label span of the text renderer (ty.rs) and the          *)
(* structured diagnostic (compiler.rs)                                     *)
(***************************************************************************)
\* miette's SourceOffset::from_location(source, loc_line, loc_col): the
\* offset of the first character at or after that location
RECURSIVE from_location(_, _, _, _, _, _)
from_location(source, i, line, col, loc_line, loc_col) ==
    IF i > Len(source) THEN i - 1
    ELSE IF line + 1 >= loc_line /\ col + 1 >= loc_col THEN i - 1
    ELSE IF Ch(source, i) = "\n"
    THEN from_location(source, i + 1, line + 1, 0, loc_line, loc_col)
    ELSE from_location(source, i + 1, line, col + 1, loc_line, loc_col)

RECURSIVE sum_lengths(_, _, _)
sum_lengths(s, from, to) ==
    IF from > to THEN 0
    ELSE (s[from].span.hi - s[from].span.lo) + sum_lengths(s, from + 1, to)

\* s[r] is a non-empty slice of s (r = <<start, end>>, inclusive, from 0):
\* otherwise the slicing, or first().unwrap(), panics
slice_ok(s, rg) == rg[1] <= rg[2] /\ rg[2] < Len(s)

\* span(c, s, r): the SourceSpan of the highlighted sub-window, or a panic
span(c, s, rg) ==
    IF ~slice_ok(s, rg) THEN [panic |-> TRUE, offset |-> 0, length |-> 0]
    ELSE LET f == s[rg[1] + 1]
             lc == f.span.start
         IN  [panic |-> FALSE,
              offset |-> from_location(c, 1, 0, 0, lc.line, lc.column + 1),
              length |-> sum_lengths(s, rg[1] + 1, rg[2] + 1)]

\* format!("{:?}", Report::new(e)): the renderer asks for labels(), which
\* calls span(); TRUE when that panics
report_panics(e) == span(e.source.text, e.window, e.rule.range).panic

\* impl Into<CompilerSpan> for &LintError.  The subtractions are on usize:
\* a build with overflow checks panics when one underflows, a build without
\* wraps (a negative value below stands for that value plus 2^64).
CompilerSpan(e, checked) ==
    LET v == e.window
        byte_start == v[1].span.lo
        byte_end == Last(v).span.hi
        highlight_end == byte_start - e.line[2]
        highlight_start == highlight_end - (byte_end - byte_start)
    IN  [panic |-> checked /\ (highlight_end < 0 \/ highlight_start < 0),
         byte_start |-> byte_start,
         byte_end |-> byte_end,
         column_start |-> v[1].span.start.column + 1,
         column_end |-> Last(v).span.end.column + 1,
         line_start |-> v[1].span.start.line,
         line_end |-> Last(v).span.end.line,
         file_name |-> e.source.name,
         is_primary |-> TRUE,
         text |-> <<[highlight_start |-> highlight_start,
                     highlight_end |-> highlight_end,
                     text |-> e.line[1]]>>]

CompilerMessageChild(level, message, spans) ==
    [level |-> level, message |-> message, spans |-> spans]

\* LintError::json_diagnostic
json_diagnostic(e, checked) ==
    LET sp == CompilerSpan(e, checked)
        level == IF e.rule.fails THEN "error" ELSE "warning"
        note == <<CompilerMessageChild(level, e.rule.description, <<>>)>>
        children ==
            IF e.rule.help.some
            THEN note \o <<CompilerMessageChild("help", e.rule.help.val, <<sp>>)>>
            ELSE note
    IN  [panic |-> sp.panic \/ report_panics(e),
         reason |-> "compiler-message",
         message |-> [message_type |-> "diagnostic",
                      children |-> children,
                      level |-> level,
                      message |-> e.rule.name,
                      spans |-> <<sp>>,
                      code |-> e.rule.name]]

(***************************************************************************)
(* Specification Spec: a run of the command-line program (main, cli, lint) *)
(***************************************************************************)
UnwrapPatternOpenClose ==
    <<Needle("Ident", None), Needle("Punct", Some(".")),
      Needle("Ident", Some("unwrap")), Needle("OpenDelim", Some("(")),
      Needle("CloseDelim", Some(")"))>>

NoUnwrap ==
    Rule("no-unwrap", "unwrap may panic", None, <<0, 4>>, UnwrapPattern,
         None, TRUE)

NoUnwrapOpenClose ==
    Rule("no-unwrap-oc", "unwrap may panic", None, <<0, 4>>,
         UnwrapPatternOpenClose, None, TRUE)

WarnA ==
    Rule("warn-a", "a is a poor name", Some("rename it"), <<0, 0>>,
         <<Needle("Ident", Some("a"))>>, None, FALSE)

BadRegex ==
    Rule("bad-regex", "unclosed group", None, <<0, 0>>,
         <<Needle("Ident", Some("/(/"))>>, None, FALSE)

BadRange ==
    Rule("bad-range", "range outside the pattern", None, <<0, 5>>,
         <<Needle("Ident", None)>>, None, FALSE)

Lit ==
    Rule("lit", "a literal", None, <<0, 0>>, <<Needle("Literal", None)>>,
         None, FALSE)

\* A rules file: "missing" (no -r and none of RULES_FILES exists),
\* "unreadable", "malformed" (not deserializable), or "ok" with its rules.
RulesFile(status, rules) == [status |-> status, rules |-> rules]

RulesFiles ==
    {RulesFile("missing", <<>>), RulesFile("unreadable", <<>>),
     RulesFile("malformed", <<>>),
     RulesFile("ok", <<NoUnwrap>>), RulesFile("ok", <<NoUnwrapOpenClose>>),
     RulesFile("ok", <<WarnA>>), RulesFile("ok", <<WarnA, NoUnwrap>>),
     RulesFile("ok", <<Lit>>),
     RulesFile("ok", <<BadRegex>>), RulesFile("ok", <<BadRange>>)}

File(readable, text) == [readable |-> readable, text |-> text, name |-> "f.rs"]

RunFiles ==
    {File(TRUE, "x.unwrap()"), File(TRUE, "x .unwrap()"), File(TRUE, " a"),
     File(TRUE, " 1"), File(TRUE, "("), File(FALSE, "")}

FileLists == UNION {[1..n -> RunFiles] : n \in 0..MaxFiles}

Reverse(s) == [i \in 1..Len(s) |-> s[Len(s) + 1 - i]]

Init ==
    /\ pc = "start"
    /\ quiet \in BOOLEAN
    /\ analyze \in BOOLEAN
    /\ overflowChecks \in BOOLEAN
    /\ rulesFile \in RulesFiles
    /\ files \in FileLists
    /\ r = <<>>
    /\ nread = 0
    /\ violations = <<>>
    /\ queue = <<>>
    /\ stdout = <<>>
    /\ stderr = <<>>
    /\ emitted = <<>>
    /\ exit = -1
    /\ cause = ""
    /\ MIdle /\ NIdle /\ TIdle /\ PIdle

\* the process ends with this exit code
Exit(code, why) ==
    /\ pc' = "exited"
    /\ exit' = code
    /\ cause' = why

\* a panic: the message goes to the error stream, the exit code is 101
Panic(why) ==
    /\ Exit(101, why)
    /\ stderr' = Append(stderr, "panic")

\* cli returns Err(e) to main
Fail(why) ==
    /\ pc' = "main_err"
    /\ cause' = why

\* cli: find, read and deserialize the rules file, then count the files
LoadRules ==
    /\ pc = "start"
    /\ IF rulesFile.status = "missing"
       THEN /\ Exit(1, "rules-missing")
            /\ stderr' = IF quiet THEN stderr ELSE Append(stderr, "error")
            /\ r' = r
       ELSE IF rulesFile.status # "ok"
       THEN Fail("rules-" \o rulesFile.status) /\ UNCHANGED <<stderr, r, exit>>
       ELSE /\ r' \in {rulesFile.rules, Reverse(rulesFile.rules)}
            /\ IF Len(files) = 0
               THEN Fail("no-files") /\ UNCHANGED <<stderr, exit>>
               ELSE pc' = "files" /\ UNCHANGED <<stderr, exit, cause>>
    /\ UNCHANGED <<quiet, analyze, rulesFile, files, overflowChecks, nread,
                   violations, queue, stdout, emitted, mvars, nvars, tvars,
                   pvars>>

\* lint(loc, rules) for the next file: read, tokenize, flatten, test
LintFile ==
    /\ pc = "files"
    /\ nread < Len(files)
    /\ \E f \in {files[nread + 1]} :
       \E ts \in {TokenStream_from_str(f.text)} :
       \E named \in {parse_all(ts.stream)} :
       \E t \in {test(r, named, f.text, f.name)} :
           IF ~f.readable
           THEN Fail("file-read") /\ UNCHANGED <<nread, violations, stderr, exit>>
           ELSE IF ~ts.ok
           THEN Panic("tokenize") /\ UNCHANGED <<nread, violations>>
           ELSE IF t.panic
           THEN Panic("regex") /\ nread' = nread + 1 /\ UNCHANGED violations
           ELSE /\ nread' = nread + 1
                /\ violations' = violations \o t.errors
                /\ UNCHANGED <<pc, stderr, exit, cause>>
    /\ UNCHANGED <<quiet, analyze, rulesFile, files, overflowChecks, r, queue,
                   stdout, emitted, mvars, nvars, tvars,
                   pvars>>

\* cli: every file is linted; print the summary and return Ok(violations)
Summary ==
    /\ pc = "files"
    /\ nread = Len(files)
    /\ stdout' = IF quiet \/ analyze THEN stdout
                 ELSE stdout \o <<"counts", "finished">>
    /\ queue' = violations
    /\ pc' = "main_ok"
    /\ UNCHANGED <<quiet, analyze, rulesFile, files, overflowChecks, r, nread,
                   violations, stderr, emitted, exit, cause, mvars, nvars, tvars,
                   pvars>>

\* main, analyze mode: print the next violation as one JSON line
EmitJson ==
    /\ pc = "main_ok" /\ analyze /\ queue # <<>>
    /\ \E e \in {Head(queue)} :
       \E d \in {json_diagnostic(e, overflowChecks)} :
           IF d.panic
           THEN Panic(IF report_panics(e) /\ ~CompilerSpan(e, overflowChecks).panic
                      THEN "range" ELSE "underflow")
                /\ UNCHANGED <<stdout, emitted, queue>>
           ELSE /\ stdout' = Append(stdout, "json")
                /\ emitted' = Append(emitted, [error |-> e, json |-> d])
                /\ queue' = Tail(queue)
                /\ UNCHANGED <<pc, stderr, exit, cause>>
    /\ UNCHANGED <<quiet, analyze, rulesFile, files, overflowChecks, r, nread,
                   violations, mvars, nvars, tvars,
                   pvars>>

\* main, analyze mode: run `cargo check` and exit(0)
AnalyzeExit ==
    /\ pc = "main_ok" /\ analyze /\ queue = <<>>
    /\ \E spawned \in BOOLEAN :
        IF spawned
        THEN Exit(0, "") /\ stdout' = Append(stdout, "cargo") /\ stderr' = stderr
        ELSE Panic("cargo") /\ stdout' = stdout
    /\ UNCHANGED <<quiet, analyze, rulesFile, files, overflowChecks, r, nread,
                   violations, queue, emitted, mvars, nvars, tvars,
                   pvars>>

\* main, otherwise: print the next violation's report to the error stream
EmitReport ==
    /\ pc = "main_ok" /\ ~analyze /\ queue # <<>>
    /\ IF report_panics(Head(queue))
       THEN Panic("range") /\ queue' = queue
       ELSE /\ stderr' = Append(stderr, "report")
            /\ queue' = Tail(queue)
            /\ UNCHANGED <<pc, exit, cause>>
    /\ UNCHANGED <<quiet, analyze, rulesFile, files, overflowChecks, r, nread,
                   violations, stdout, emitted, mvars, nvars, tvars,
                   pvars>>

any_fails(a) == \E i \in 1..Len(a) : a[i].fails

\* main, otherwise: exit(1) if any violation fails, else return
PlainExit ==
    /\ pc = "main_ok" /\ ~analyze /\ queue = <<>>
    /\ Exit(IF any_fails(violations) THEN 1 ELSE 0, "")
    /\ UNCHANGED <<quiet, analyze, rulesFile, files, overflowChecks, r, nread,
                   violations, queue, stdout, stderr, emitted, mvars, nvars, tvars,
                   pvars>>

\* main, Err(e): unless quiet, print the error and exit(1)
MainErr ==
    /\ pc = "main_err"
    /\ pc' = "exited"
    /\ exit' = IF quiet THEN 0 ELSE 1
    /\ stderr' = IF quiet THEN stderr ELSE Append(stderr, "error")
    /\ UNCHANGED <<quiet, analyze, rulesFile, files, overflowChecks, r, nread,
                   violations, queue, stdout, emitted, cause, mvars, nvars, tvars,
                   pvars>>

Next ==
    \/ LoadRules
    \/ LintFile
    \/ Summary
    \/ EmitJson
    \/ AnalyzeExit
    \/ EmitReport
    \/ PlainExit
    \/ MainErr

Spec == Init /\ [][Next]_vars

(***************************************************************************)
(* Claims about the run (checked under Spec)                               *)
(***************************************************************************)
\* the one file `x.unwrap()` has been linted against the one rule rl
LintedXUnwrap(rl) ==
    /\ files = <<File(TRUE, "x.unwrap()")>>
    /\ r = <<rl>>
    /\ nread = 1

\* the rule matched once, with a window of all five tokens of the file
OneWindowOfFive ==
    /\ Len(violations) = 1
    /\ violations[1].window = Tokenize("x.unwrap()")
    /\ Len(violations[1].window) = 5

CompletedLinting ==
    /\ pc = "exited"
    /\ cause = ""

\* C5: for every run that completes linting, in every output mode, the exit
\* code is non-zero if and only if some collected violation has fails=true.
C5_ExitCodeIffFails ==
    CompletedLinting => (exit # 0 <=> any_fails(violations))

\* C6: for a violation whose rule has no help, json_diagnostic's children
\* hold exactly one child of level "help" (carrying a fallback text) and
\* exactly one child of level "note" carrying the rule's description.
C6_HelpFallbackAndNote ==
    \A i \in 1..Len(emitted) :
        ~emitted[i].error.rule.help.some =>
            LET ch == emitted[i].json.message.children IN
            /\ Cardinality({k \in 1..Len(ch) : ch[k].level = "help"}) = 1
            /\ Cardinality({k \in 1..Len(ch) :
                    /\ ch[k].level = "note"
                    /\ ch[k].message = emitted[i].error.rule.description}) = 1

\* the rule carries an invalid regular expression, or a range that does not
\* lie within [0, len(pattern) - 1]
RuleConfigError(rl) ==
    \/ \E k \in 1..Len(rl.pattern) :
            /\ rl.pattern[k].value.some
            /\ Wrapped(rl.pattern[k].value.val)
            /\ ~Regex_new_ok(Inner(rl.pattern[k].value.val))
    \/ ~(rl.range[1] <= rl.range[2] /\ rl.range[2] <= Len(rl.pattern) - 1)

ConfigError(rf) ==
    rf.status = "ok" /\ \E k \in 1..Len(rf.rules) : RuleConfigError(rf.rules[k])

\* C7: a configuration error (invalid regex in a needle, range outside the
\* pattern) is detected when the rule set is loaded and aborts the run
\* before any file is read, tokenized or matched.
C7_ConfigErrorAbortsAtLoad ==
    ConfigError(rulesFile) => (nread = 0 /\ violations = <<>>)

\* the run was not cut short by a panic
NoPanic == cause \notin {"tokenize", "regex", "range", "underflow", "cargo"}

\* C8: in quiet mode no text is printed for any run outcome (violations
\* found, none found, or an error returned to main), and the exit code is
\* non-zero whenever a fails=true violation was found.
C8_QuietPrintsNothing ==
    (quiet /\ NoPanic) =>
        /\ stdout = <<>>
        /\ stderr = <<>>
        /\ (pc = "exited" /\ any_fails(violations)) => exit # 0

\* C14: for every violation the unsigned highlight arithmetic of the
\* structured span does not underflow: byte_start >= line_start_offset and
\* byte_start - line_start_offset >= byte_end - byte_start, so that
\* 0 <= highlight_start <= highlight_end, also for a match that begins at
\* the first column of a line; no run is ended by the subtraction.
C14_HighlightNoUnderflow ==
    /\ cause # "underflow"
    /\ \A i \in 1..Len(violations) :
        LET e == violations[i]
            sp == CompilerSpan(e, FALSE)
        IN  /\ sp.byte_start >= e.line[2]
            /\ sp.byte_start - e.line[2] >= sp.byte_end - sp.byte_start
            /\ 0 <= sp.text[1].highlight_start
            /\ sp.text[1].highlight_start <= sp.text[1].highlight_end

\* the range lies within [0, len(pattern) - 1]
RangeInPattern(rl) ==
    rl.range[1] <= rl.range[2] /\ rl.range[2] <= Len(rl.pattern) - 1

\* C15: the primary label of the text renderer starts at the start of token
\* window[range.start], and its length is the byte distance from there to
\* the end of token window[range.end] (whitespace between the tokens
\* included); for a range within [0, len(pattern) - 1] computing it never
\* fails.
C15_LabelCoversSubWindow ==
    \A i \in 1..Len(violations) :
        LET e == violations[i]
            from == e.window[e.rule.range[1] + 1]
            to == e.window[e.rule.range[2] + 1]
            label == span(e.source.text, e.window, e.rule.range)
        IN  RangeInPattern(e.rule) =>
                /\ ~label.panic
                /\ label.offset = from.span.lo
                /\ label.length = to.span.hi - from.span.lo

(***************************************************************************)
(* Specification SpecParse: the flattening of the token stream of a source *)
(* text, as lint does it                                                   *)
(***************************************************************************)
ParseAlphabet == {"a", ".", "(", ")", "[", "]"}

ParseSources ==
    {s \in Texts(ParseAlphabet, MaxParseLen) : TokenStream_from_str(s).ok}

ParseInit ==
    /\ ppc = "call"
    /\ pinput \in ParseSources
    /\ pstream = TokenStream_from_str(pinput).stream
    /\ pnamed = <<>>
    /\ MIdle /\ NIdle /\ TIdle /\ RIdle

\* token_tree.into_iter().map(|tt| parse(tt)).flatten().collect()
ParseCall ==
    /\ ppc = "call"
    /\ pnamed' = parse_all(pstream)
    /\ ppc' = "done"
    /\ UNCHANGED <<pinput, pstream, mvars, nvars, tvars, rvars>>

ParseNext == ParseCall

SpecParse == ParseInit /\ [][ParseNext]_vars

\* the leaves of a stream, at every depth, in order
RECURSIVE LeafTokens(_)
LeafTokens(stream) ==
    IF stream = <<>> THEN <<>>
    ELSE (IF Head(stream).tt = "Group" THEN LeafTokens(Head(stream).stream)
          ELSE <<Named(Head(stream).tt, Head(stream).text, Head(stream).span)>>)
         \o LeafTokens(Tail(stream))

\* the groups of a stream, at every depth
RECURSIVE AllGroups(_)
AllGroups(stream) ==
    IF stream = <<>> THEN {}
    ELSE (IF Head(stream).tt = "Group"
          THEN {Head(stream)} \cup AllGroups(Head(stream).stream)
          ELSE {})
         \cup AllGroups(Tail(stream))

\* the number of groups of a stream, at every depth
RECURSIVE CountGroups(_)
CountGroups(stream) ==
    IF stream = <<>> THEN 0
    ELSE (IF Head(stream).tt = "Group"
          THEN 1 + CountGroups(Head(stream).stream) ELSE 0)
         + CountGroups(Tail(stream))

IsDelim(t) == t.kind = "Delim"

NotDelim(t) == ~IsDelim(t)

Closer(c) == IF c = "(" THEN ")" ELSE IF c = "{" THEN "}" ELSE "]"

\* from token i on, with the closers still owed in stack (innermost first),
\* every closing delimiter closes the innermost open one and none stays open
RECURSIVE Nested(_, _, _)
Nested(named, i, stack) ==
    IF i > Len(named) THEN stack = <<>>
    ELSE IF ~IsDelim(named[i]) THEN Nested(named, i + 1, stack)
    ELSE IF named[i].text \in OpenChars
    THEN Nested(named, i + 1, <<Closer(named[i].text)>> \o stack)
    ELSE /\ stack # <<>>
         /\ Head(stack) = named[i].text
         /\ Nested(named, i + 1, Tail(stack))

\* the tokens of named that lie between the two delimiters of group g
Enclosed(named, g) ==
    LET Inside(t) == g.span_open.hi <= t.span.lo /\ t.span.hi <= g.span_close.lo
    IN  SelectSeq(named, Inside)

\* C16: flattening yields, for every group at every depth, one opening
\* delimiter token, the flattened tokens of its contents in document order,
\* then one closing delimiter token: the delimiter tokens are balanced and
\* properly nested, each pair encloses exactly its group's tokens, the
\* leaves keep their order, and the length is leaves + 2 * groups.
C16_FlatteningNested ==
    ppc = "done" =>
        /\ Len(pnamed) = Len(LeafTokens(pstream)) + 2 * CountGroups(pstream)
        /\ Nested(pnamed, 1, <<>>)
        /\ SelectSeq(pnamed, NotDelim) = LeafTokens(pstream)
        /\ \A i \in 1..(Len(pnamed) - 1) : pnamed[i].span.hi <= pnamed[i + 1].span.lo
        /\ \A g \in AllGroups(pstream) :
            \E i \in 1..Len(pnamed), j \in 1..Len(pnamed) :
                /\ i < j
                /\ pnamed[i] = Named("Delim", match_delim(g.delimiter)[1], g.span_open)
                /\ pnamed[j] = Named("Delim", match_delim(g.delimiter)[2], g.span_close)
                /\ \A k \in 1..Len(pnamed) :
                       (pnamed[k].span = g.span_open) = (k = i)
                /\ \A k \in 1..Len(pnamed) :
                       (pnamed[k].span = g.span_close) = (k = j)
                /\ SubSeq(pnamed, i + 1, j - 1) = Enclosed(pnamed, g)
                /\ j - i - 1 = Len(LeafTokens(g.stream)) + 2 * CountGroups(g.stream)
                /\ Nested(SubSeq(pnamed, i + 1, j - 1), 1, <<>>)

\* a bracket group holding a leaf, inside a parenthesis group, was flattened
C16_Witness ==
    /\ ppc = "done"
    /\ pinput = "([a])"
    /\ Len(pnamed) = 5
    /\ pnamed[3].kind = "Ident"

====
